---- MODULE Spec2Model ----
(***************************************************************************)
(* Fuzzy employability scoring (assignment1.py).                           *)
(*                                                                         *)
(* The program builds one Mamdani control system (five antecedents with    *)
(* the terms low/medium/high, one consequent with the terms                *)
(* poor/average/good/excellent, eight rules), one simulation object shared *)
(* by every row, and a loop that feeds each row of the data frame through  *)
(* that object, categorises the score and appends (score, category) to two *)
(* lists; an exception in a row appends (None, 'Error') instead.           *)
(*                                                                         *)
(* The simulation object is scikit-fuzzy's ControlSystemSimulation with its *)
(* defaults (clip_to_bounds, cache, flush_after_run): inputs are clipped to *)
(* the universe, what is calculated is stored per state of the inputs, and  *)
(* the output is the centroid of the aggregated membership over the         *)
(* universe upsampled at the points where a term meets its cut.            *)
(*                                                                         *)
(* Arithmetic.  The program works on floats; the model works on exact      *)
(* rationals.  Cell values are integers of the universe 0..100 (or NaN,    *)
(* +inf, -inf).  Membership degrees are integers in units of 1/One.        *)
(* Points of the output universe are integers in units of 1/Res, which     *)
(* holds every point the defuzzifier adds to the universe when the inputs  *)
(* are integers.  A score is a pair <<num, den>> standing for num/den.     *)
(***************************************************************************)
EXTENDS Integers, Sequences, FiniteSets, TLC

\* Longest data frame of the batch specification.
MaxRows == 2

\* Degree 1.0: the least common multiple of the triangle widths in model units.
One == 12 * 50
\* Resolution of the output universe: 1/Res of a universe step.
Res == 250 \div 50

VARIABLES
    df,                       \* the rows handed to calculate_employability_scores
    idx,                      \* rows consumed by the for loop
    pc,                       \* "loop", "done"; "categorize", "categorized" for the categorisation alone
    sim,                      \* employability_simulation, the shared simulation object
    score,                    \* local: the unrounded score of the last successful compute
    category,                 \* local: the last category assigned
    employability_scores,     \* list of recorded scores (hundredths) or None
    employability_categories, \* list of recorded categories
    out                       \* the two columns assigned to df on return

vars == <<df, idx, pc, sim, score, category, employability_scores,
          employability_categories, out>>

----------------------------------------------------------------------------
\* Values

None == <<>>
Some(v) == <<v>>

Num(v) == [kind |-> "num", v |-> v]
NaN == [kind |-> "nan", v |-> 0]
PosInf == [kind |-> "inf", v |-> 0]
NegInf == [kind |-> "ninf", v |-> 0]

Max2(a, b) == IF a >= b THEN a ELSE b
Min2(a, b) == IF a <= b THEN a ELSE b

EmptyMap == [x \in {} |-> 0]
Put(f, k, v) == [x \in (DOMAIN f) \cup {k} |-> IF x = k THEN v ELSE f[x]]

----------------------------------------------------------------------------
\* Fuzzy system setup

\* np.arange(0, 101, 1)
UniverseMin == 0
UniverseMax == 100

Antecedents == <<"academic_reputation", "employer_reputation",
                 "faculty_student_ratio", "citations_per_paper", "staff_phd">>

OutputLabels == <<"poor", "average", "good", "excellent">>

\* fuzz.trimf(x, [a, b, c]) at a point of the sampled universe, in units of 1/One:
\* zero, the rising edge on a < x < b when a # b, the falling edge on b < x < c
\* when b # c, and 1 at x = b.  x, a, b, c share one unit.
Trimf(x, a, b, c) ==
    IF x = b THEN One
    ELSE IF a # b /\ a < x /\ x < b THEN ((x - a) * One) \div (b - a)
    ELSE IF b # c /\ b < x /\ x < c THEN ((c - x) * One) \div (c - b)
    ELSE 0

InputAbcHighAsMedium(label) ==
    CASE label = "low" -> <<0, 0, 50>>
      [] label = "medium" -> <<0, 50, 100>>
      [] label = "high" -> <<0, 50, 100>>

\* The three terms of every antecedent.
InputAbc(label) ==
    CASE label = "low" -> <<0, 0, 50>>
      [] label = "medium" -> <<0, 50, 100>>
      [] label = "high" -> <<50, 100, 100>>

\* The four terms of the consequent.
OutputAbc(label) ==
    CASE label = "poor" -> <<0, 0, 40>>
      [] label = "average" -> <<20, 50, 80>>
      [] label = "good" -> <<60, 80, 100>>
      [] label = "excellent" -> <<80, 100, 100>>

\* Membership of the crisp input x in an antecedent term.
InputMf(label, x) ==
    LET abc == InputAbc(label) IN Trimf(x, abc[1], abc[2], abc[3])

\* Membership of the output point X (units of 1/Res) in a consequent term: the
\* linear interpolation of the integer samples, which is the triangle itself,
\* its corners being integers.
OutputMf(label, X) ==
    LET abc == OutputAbc(label) IN Trimf(X, Res * abc[1], Res * abc[2], Res * abc[3])

\* Firing strength of rule1..rule8 for the inputs in (a function on the
\* antecedent names): & is min, | is max.
RuleStrength(k, in) ==
    LET ar == in["academic_reputation"]
        er == in["employer_reputation"]
        fs == in["faculty_student_ratio"]
        cp == in["citations_per_paper"]
        sp == in["staff_phd"]
    IN CASE k = 1 -> Min2(InputMf("high", ar), InputMf("high", er))
         [] k = 2 -> Min2(InputMf("high", er), InputMf("high", sp))
         [] k = 3 -> Min2(InputMf("high", cp), InputMf("high", ar))
         [] k = 4 -> Min2(InputMf("high", fs), InputMf("high", sp))
         [] k = 5 -> Min2(InputMf("low", ar), InputMf("low", er))
         [] k = 6 -> Min2(InputMf("medium", er), InputMf("medium", cp))
         [] k = 7 -> Min2(Min2(InputMf("high", ar), InputMf("high", cp)),
                          InputMf("high", sp))
         [] k = 8 -> Max2(InputMf("low", fs), InputMf("low", sp))

RuleConsequentSwapped(k) ==
    <<"poor", "good", "good", "good", "excellent", "average", "excellent", "average">>[k]

\* The consequent term of rule k.
RuleConsequent(k) ==
    <<"excellent", "good", "good", "good", "poor", "average", "excellent", "average">>[k]

NumRules == 8

----------------------------------------------------------------------------
\* The control system simulation (ControlSystemSimulation of line 52)

\* Runs after which the simulation flushes its cache (flush_after_run default).
FlushAfterRun == 1000

\* The simulation object after construction: no input set, nothing calculated.
InitSim ==
    [current |-> [a \in 1..Len(Antecedents) |-> None],
     membership |-> EmptyMap,
     consequent_output |-> EmptyMap,
     calculated |-> {},
     run |-> 0,
     output |-> None]

\* Clipping of an input to the bounds of the universe (clip_to_bounds default):
\* np.fmin(max, np.fmax(min, value)).  fmax and fmin ignore a NaN operand, so
\* NaN clips to the lower bound, +inf to the upper, -inf to the lower.
ClipToBounds(value) ==
    CASE value.kind = "num" -> Min2(UniverseMax, Max2(UniverseMin, value.v))
      [] value.kind = "inf" -> UniverseMax
      [] value.kind = "ninf" -> UniverseMin
      [] value.kind = "nan" -> UniverseMin

UniqueIdStale(current) == <<>>

\* The key under which the simulation stores what it calculated: the state of
\* its inputs.
UniqueId(current) == current

\* employability_simulation.input[key] = value, for the five keys.
SetInputs(s, inputs) ==
    [s EXCEPT !.current = [a \in 1..Len(Antecedents) |-> Some(ClipToBounds(inputs[a]))]]

\* compute_rule for rules k..NumRules: the firing strength is accumulated into
\* the consequent term's membership by max; a term with no value yet takes it.
RECURSIVE ComputeRules(_, _, _)
ComputeRules(mv, k, in) ==
    IF k > NumRules THEN mv
    ELSE LET label == RuleConsequent(k)
             value == RuleStrength(k, in)
             acc == IF label \in DOMAIN mv THEN Max2(value, mv[label]) ELSE value
         IN ComputeRules(Put(mv, label, acc), k + 1, in)

\* The points added to the universe for a term cut at y: where the sampled
\* membership function crosses y.  For y = 0 and y = 1 these are samples.
Crossings(label, y) ==
    LET abc == OutputAbc(label)
        a == Res * abc[1]
        b == Res * abc[2]
        c == Res * abc[3]
    IN IF 0 < y /\ y < One
       THEN (IF a # b THEN {a + (y * (b - a)) \div One} ELSE {})
            \cup (IF b # c THEN {c - (y * (c - b)) \div One} ELSE {})
       ELSE {}

\* The upsampled universe of find_memberships: the samples and the crossings.
InUniverse(X, cross) == X % Res = 0 \/ X \in cross

\* A consequent term clipped at its cut, at X; a term with no membership
\* value contributes nothing.
ClippedMf(label, X, mv) ==
    IF label \in DOMAIN mv /\ mv[label] > 0
    THEN Min2(mv[label], OutputMf(label, X))
    ELSE 0

\* The aggregated output membership at X: the max over the terms of the term
\* clipped at its cut.
OutputMembership(X, mv) ==
    Max2(Max2(ClippedMf("poor", X, mv), ClippedMf("average", X, mv)),
         Max2(ClippedMf("good", X, mv), ClippedMf("excellent", X, mv)))

Add3(p, q) == <<p[1] + q[1], p[2] + q[2], p[3] + q[3]>>

\* One step of centroid(x, mfx) between consecutive points x1 and x1 + w with
\* memberships y1 and y2: <<6 * moment * area, 2 * area, y2>>; a segment of
\* zero height adds nothing.
SegmentSums(x1, w, y1, y2) ==
    IF y1 = 0 /\ y2 = 0 THEN <<0, 0, 0>>
    ELSE <<w * w * (2 * y2 + y1) + 3 * x1 * w * (y1 + y2), w * (y1 + y2), y2>>

\* The points of the upsampled universe from sample i to sample i + 1, in order.
IntervalPoints(i, cross) ==
    SelectSeq([o \in 1..(Res + 1) |-> Res * i + o - 1],
              LAMBDA u : InUniverse(u, cross))

\* The sums of centroid(x, mfx) over the points pts[1..k+1].
RECURSIVE PointSums(_, _, _)
PointSums(pts, k, mv) ==
    IF k = 0 THEN <<0, 0, 0>>
    ELSE Add3(PointSums(pts, k - 1, mv),
              SegmentSums(pts[k], pts[k + 1] - pts[k],
                          OutputMembership(pts[k], mv), OutputMembership(pts[k + 1], mv)))

\* The sums of centroid(x, mfx) over the samples lo..hi + 1.
RECURSIVE CentroidSums(_, _, _, _)
CentroidSums(lo, hi, cross, mv) ==
    IF lo = hi
    THEN IF \A o \in 1..(Res - 1) : (Res * lo + o) \notin cross
         THEN SegmentSums(Res * lo, Res, OutputMembership(Res * lo, mv),
                          OutputMembership(Res * lo + Res, mv))
         ELSE PointSums(IntervalPoints(lo, cross), Len(IntervalPoints(lo, cross)) - 1, mv)
    ELSE Add3(CentroidSums(lo, (lo + hi) \div 2, cross, mv),
              CentroidSums((lo + hi) \div 2 + 1, hi, cross, mv))

DefuzzMidpoint(mv) == <<(UniverseMin + UniverseMax), 2>>

\* CrispValueCalculator.defuzz: None stands for the exception raised when no
\* term has a membership or the total area is zero; otherwise the centroid
\* <<num, den>>.
Defuzz(mv) ==
    IF DOMAIN mv = {} THEN None
    ELSE LET cross == UNION {Crossings(l, mv[l]) : l \in DOMAIN mv}
             y0 == OutputMembership(Res * UniverseMin, mv)
             sums == CentroidSums(UniverseMin, UniverseMax - 1, cross, mv)
         IN IF sums[3] + y0 = 0 THEN None
            ELSE <<sums[1], 3 * Res * sums[2]>>

\* The end of compute() for the state uid with the accumulated memberships mv
\* and the defuzzified output crisp: [sim, raised].  The memberships stay
\* stored when defuzzification raises; otherwise the output is stored, the
\* state is recorded as calculated and the run counted (the cache is flushed
\* every FlushAfterRun runs).
ComputeEnd(s, uid, mv, crisp) ==
    IF crisp = None
    THEN [sim |-> [s EXCEPT !.membership = Put(s.membership, uid, mv)],
          raised |-> TRUE]
    ELSE IF (s.run + 1) % FlushAfterRun = 0
    THEN [sim |-> [s EXCEPT !.membership = EmptyMap,
                            !.consequent_output = EmptyMap,
                            !.output = crisp,
                            !.calculated = {},
                            !.run = 0],
          raised |-> FALSE]
    ELSE [sim |-> [s EXCEPT !.membership = Put(s.membership, uid, mv),
                            !.consequent_output = Put(s.consequent_output, uid, crisp),
                            !.output = crisp,
                            !.calculated = s.calculated \cup {uid},
                            !.run = s.run + 1],
          raised |-> FALSE]

\* The rule evaluation of compute() for the state uid: the consequent term of
\* the first rule is cleared, then every rule is computed on top of what the
\* terms hold for this state.
ComputeMemberships(s, uid) ==
    LET in == [n \in {Antecedents[a] : a \in 1..Len(Antecedents)} |->
                  s.current[CHOOSE a \in 1..Len(Antecedents) : Antecedents[a] = n][1]]
        prior == IF uid \in DOMAIN s.membership THEN s.membership[uid] ELSE EmptyMap
    IN ComputeRules([l \in (DOMAIN prior) \ {RuleConsequent(1)} |-> prior[l]], 1, in)

ComputeDefuzz(s, uid, mv) == ComputeEnd(s, uid, mv, Defuzz(mv))

ComputeState(s, uid) ==
    IF \E a \in 1..Len(Antecedents) : s.current[a] = None
    THEN [sim |-> s, raised |-> TRUE]
    ELSE IF uid \in s.calculated
    THEN [sim |-> [s EXCEPT !.output = s.consequent_output[uid]], raised |-> FALSE]
    ELSE ComputeDefuzz(s, uid, ComputeMemberships(s, uid))

\* employability_simulation.compute(): [sim, raised].  It raises when an
\* antecedent has no input; a state calculated before is looked up; otherwise
\* the rules are evaluated and the output defuzzified.
Compute(s) == ComputeState(s, UniqueId(s.current))

----------------------------------------------------------------------------
\* calculate_employability_scores

Columns == <<"Academic_Reputation", "Employer_Reputation", "Faculty_Student_Ratio",
             "Citations_per_Paper", "Staff_with_PhD">>

\* pd.notna: false for NaN alone (an infinity is not NA).
NotNa(cell) == cell.kind # "nan"

DefaultValueZero == Num(0)

\* The value used for a missing cell.
DefaultValue == Num(50)

\* The inputs dictionary of a row, in the order of Antecedents: float(cell) if
\* the cell is not NA, else the default.
ExtractInputs(row) ==
    [a \in 1..Len(Antecedents) |->
        IF NotNa(row[Columns[a]]) THEN row[Columns[a]] ELSE DefaultValue]

\* round(score, 2), in hundredths: the nearest hundredth, a tie to the even one.
\* s = <<num, den>> with num >= 0, den > 0.
Round2(s) ==
    LET q == s[1] \div s[2]
        r == s[1] % s[2]
        h == (100 * r) \div s[2]
        t == 2 * ((100 * r) % s[2])
        up == t > s[2] \/ (t = s[2] /\ h % 2 = 1)
    IN 100 * q + h + (IF up THEN 1 ELSE 0)

CategorizeRounded(s) ==
    IF Round2(s) >= 8000 THEN "Excellent"
    ELSE IF Round2(s) >= 6000 THEN "Good"
    ELSE IF Round2(s) >= 4000 THEN "Average"
    ELSE "Poor"

CategorizeStrict(s) ==
    IF s[1] > 80 * s[2] THEN "Excellent"
    ELSE IF s[1] > 60 * s[2] THEN "Good"
    ELSE IF s[1] > 40 * s[2] THEN "Average"
    ELSE "Poor"

\* The if/elif chain on the score s = <<num, den>>, den > 0.
Categorize(s) ==
    IF s[1] >= 80 * s[2] THEN "Excellent"
    ELSE IF s[1] >= 60 * s[2] THEN "Good"
    ELSE IF s[1] >= 40 * s[2] THEN "Average"
    ELSE "Poor"

ExceptScoresDropped(scores) == scores

\* The except branch: employability_scores.append(None).
ExceptScores(scores) == Append(scores, None)

\* The except branch: employability_categories.append('Error').
ExceptCategories(categories) == Append(categories, "Error")

\* One iteration of the for loop over df.iterrows(): the try body, or the
\* except branch when compute raises.
Iterate ==
    /\ pc = "loop"
    /\ idx < Len(df)
    /\ \E c \in {Compute(SetInputs(sim, ExtractInputs(df[idx + 1])))} :
          /\ sim' = c.sim
          /\ IF c.raised
             THEN /\ employability_scores' = ExceptScores(employability_scores)
                  /\ employability_categories' = ExceptCategories(employability_categories)
                  /\ UNCHANGED <<score, category>>
             ELSE /\ score' = c.sim.output
                  /\ category' = Categorize(c.sim.output)
                  /\ employability_scores' =
                         Append(employability_scores, Some(Round2(c.sim.output)))
                  /\ employability_categories' =
                         Append(employability_categories, Categorize(c.sim.output))
    /\ idx' = idx + 1
    /\ UNCHANGED <<df, pc, out>>

\* After the loop: the two lists become the columns Employability_Score and
\* Employability_Category of df, which is returned.
Return ==
    /\ pc = "loop"
    /\ idx = Len(df)
    /\ pc' = "done"
    /\ out' = [Employability_Score |-> employability_scores,
               Employability_Category |-> employability_categories]
    /\ UNCHANGED <<df, idx, sim, score, category, employability_scores,
                   employability_categories>>

\* The categorisation of lines 136-143 applied to a given score.
CategorizeScore ==
    /\ pc = "categorize"
    /\ category' = Categorize(score)
    /\ pc' = "categorized"
    /\ UNCHANGED <<df, idx, sim, score, employability_scores,
                   employability_categories, out>>

Row(ar, er, fs, cp, sp) ==
    [Academic_Reputation |-> ar, Employer_Reputation |-> er,
     Faculty_Student_Ratio |-> fs, Citations_per_Paper |-> cp, Staff_with_PhD |-> sp]

\* The state when calculate_employability_scores is entered with the frame d.
Entered(d) ==
    /\ df = d
    /\ idx = 0
    /\ pc = "loop"
    /\ sim = InitSim
    /\ score = None
    /\ category = "none"
    /\ employability_scores = <<>>
    /\ employability_categories = <<>>
    /\ out = None

\* Rows of the batch specification: low or top reputations, a faculty/student
\* ratio and a staff-with-PhD share that are low or missing, no citations.
BatchRows ==
    {Row(ar, er, fs, cp, sp) :
        ar \in {Num(30), Num(100)}, er \in {Num(20), Num(100)},
        fs \in {Num(35), NaN}, cp \in {Num(0)}, sp \in {Num(15), NaN}}

RECURSIVE SeqsUpTo(_, _)
SeqsUpTo(S, n) ==
    IF n = 0 THEN {<<>>}
    ELSE LET shorter == SeqsUpTo(S, n - 1)
         IN shorter \cup {Append(q, r) : q \in {t \in shorter : Len(t) = n - 1}, r \in S}

\* Batches: every frame of at most MaxRows rows.
Init == \E d \in SeqsUpTo(BatchRows, MaxRows) : Entered(d)

Next == Iterate \/ Return

Spec == Init /\ [][Next]_vars

\* Single rows over a wider range of cells, the non-finite ones included.
WideCells == {Num(0), Num(30), Num(50), Num(100), NaN, PosInf, NegInf}

WideRows ==
    {Row(ar, er, fs, cp, sp) :
        ar \in WideCells, er \in WideCells, fs \in WideCells,
        cp \in WideCells, sp \in WideCells}

InitWide == \E r \in WideRows : Entered(<<r>>)

SpecWide == InitWide /\ [][Next]_vars

\* The sweep academic_reputation = employer_reputation = t, the others at 50.
Sweep(t) == Row(Num(t), Num(t), Num(50), Num(50), Num(50))

InitSweep ==
    \E t1 \in UniverseMin..UniverseMax : \E t2 \in t1..UniverseMax :
        Entered(<<Sweep(t1), Sweep(t2)>>)

SpecSweep == InitSweep /\ [][Next]_vars

\* A row and the same row with 50 in place of each missing cell.
Filled(row) == [c \in DOMAIN row |-> IF row[c] = NaN THEN Num(50) ELSE row[c]]

FillCells == {Num(0), Num(30), Num(50), Num(100), NaN}

FillRows ==
    {Row(ar, er, fs, cp, sp) :
        ar \in FillCells, er \in FillCells, fs \in FillCells,
        cp \in FillCells, sp \in FillCells}

InitFilled == \E r \in FillRows : Entered(<<r, Filled(r)>>)

SpecFilled == InitFilled /\ [][Next]_vars

\* Scores in hundredths from -1.00 to 101.00, handed to the categorisation.
CatScores == {<<h, 100>> : h \in (-100)..(100 * UniverseMax + 100)}

InitCat ==
    /\ \E s \in CatScores : score = s
    /\ df = <<>>
    /\ idx = 0
    /\ pc = "categorize"
    /\ sim = InitSim
    /\ category = "none"
    /\ employability_scores = <<>>
    /\ employability_categories = <<>>
    /\ out = None

NextCat == CategorizeScore

SpecCat == InitCat /\ [][NextCat]_vars

\* The result recorded for position i.
Result(i) == <<employability_scores[i], employability_categories[i]>>

\* The result of a row handed to a simulation that has processed nothing.
Outcome(c) ==
    IF c.raised THEN <<None, "Error">>
    ELSE <<Some(Round2(c.sim.output)), Categorize(c.sim.output)>>

FreshResult(row) == Outcome(Compute(SetInputs(InitSim, ExtractInputs(row))))

----------------------------------------------------------------------------
\* Properties

\* The crisp values the engine works on for a row, by antecedent name.
EffectiveInputs(row) ==
    [n \in {Antecedents[a] : a \in 1..Len(Antecedents)} |->
        ClipToBounds(ExtractInputs(row)[CHOOSE a \in 1..Len(Antecedents) : Antecedents[a] = n])]

\* All eight rules have firing strength 0 for the row.
NoRuleFires(row) ==
    \A k \in 1..NumRules : RuleStrength(k, EffectiveInputs(row)) = 0

\* The category the thresholds 80/60/40 assign to the score num/den, den > 0.
ThresholdCategory(num, den) ==
    CASE num >= 80 * den -> "Excellent"
      [] num < 80 * den /\ num >= 60 * den -> "Good"
      [] num < 60 * den /\ num >= 40 * den -> "Average"
      [] num < 40 * den -> "Poor"

Categories == {"Excellent", "Good", "Average", "Poor"}

Succeeded(i) == employability_scores[i] # None

Recorded(i) == employability_scores[i][1]

ListsInStep ==
    /\ Len(employability_scores) = idx
    /\ Len(employability_categories) = idx

\* C1: in every batch, once the loop is over, the result recorded at each
\* position is the result the row at that position gets from a simulation that
\* has processed nothing: it depends on the row's five values alone, not on the
\* rows (failing ones included) processed before it.
C1_ResultDependsOnRowAlone ==
    pc = "done" =>
        /\ ListsInStep
        /\ \A i \in 1..Len(df) : Result(i) = FreshResult(df[i])

\* A batch of two different rows, the first failing, the second scored.
C1_Witness ==
    /\ pc = "done"
    /\ Len(df) = 2
    /\ df[1] # df[2]
    /\ ~Succeeded(1)
    /\ Succeeded(2)

\* C2: a processed row for which all eight firing strengths are 0 is recorded
\* as (None, 'Error'): no numeric score is produced for it.
C2_NoRuleFiresIsError ==
    /\ ListsInStep
    /\ \A i \in 1..idx : NoRuleFires(df[i]) => Result(i) = <<None, "Error">>

\* A processed row for which no rule fires.
C2_Witness ==
    /\ idx = 1
    /\ NoRuleFires(df[1])
    /\ Result(1) = <<None, "Error">>
    /\ score = None

\* C3: the lists grow by one entry per row consumed; a row for which no rule
\* fires is recorded as (None, 'Error') at its own position and every other row
\* as a score with one of the four categories at its own position; the loop
\* ends only when every row has been consumed, and the returned columns then
\* hold one entry per row.
C3_BatchNeverAborts ==
    /\ ListsInStep
    /\ \A i \in 1..idx :
          IF NoRuleFires(df[i])
          THEN Result(i) = <<None, "Error">>
          ELSE Succeeded(i) /\ employability_categories[i] \in Categories
    /\ pc = "done" =>
          /\ idx = Len(df)
          /\ Len(out.Employability_Score) = Len(df)
          /\ Len(out.Employability_Category) = Len(df)
          /\ out.Employability_Score = employability_scores
          /\ out.Employability_Category = employability_categories

\* A finished batch whose first row failed and whose second row was scored.
C3_Witness ==
    /\ pc = "done"
    /\ Len(df) = 2
    /\ NoRuleFires(df[1])
    /\ Result(1) = <<None, "Error">>
    /\ ~NoRuleFires(df[2])
    /\ Succeeded(2)

\* C4: the category assigned to a score is the one the closed lower thresholds
\* give: Excellent from 80, Good from 60 to below 80, Average from 40 to below
\* 60, Poor below 40; 80.00 is Excellent, 79.99 Good, 40.00 Average, 39.99
\* Poor; every score gets exactly one of the four categories.
C4_CategorizeThresholds ==
    pc = "categorized" =>
        /\ category \in Categories
        /\ category = "Excellent" <=> score[1] >= 8000
        /\ category = "Good" <=> (score[1] >= 6000 /\ score[1] < 8000)
        /\ category = "Average" <=> (score[1] >= 4000 /\ score[1] < 6000)
        /\ category = "Poor" <=> score[1] < 4000
        /\ score[1] = 8000 => category = "Excellent"
        /\ score[1] = 7999 => category = "Good"
        /\ score[1] = 4000 => category = "Average"
        /\ score[1] = 3999 => category = "Poor"

\* The score 80.00 categorised.
C4_Witness ==
    /\ pc = "categorized"
    /\ score = <<8000, 100>>
    /\ category = "Excellent"

\* C5: a row that hands a non-finite value to the engine is recorded as
\* (None, 'Error'): no score is produced for it.
C5_NonFiniteIsError ==
    /\ ListsInStep
    /\ \A i \in 1..idx :
          (\E a \in 1..Len(Antecedents) : ExtractInputs(df[i])[a].kind # "num")
              => Result(i) = <<None, "Error">>

\* C6: a row with missing cells is recorded with the same score and category
\* as the row holding 50 in their place.
C6_MissingIsFifty ==
    /\ ListsInStep
    /\ (idx = 2 /\ df[2] = Filled(df[1])) => Result(1) = Result(2)

\* A scored row with a missing cell, and its filled twin.
C6_Witness ==
    /\ idx = 2
    /\ df[2] = Filled(df[1])
    /\ df[1] # df[2]
    /\ Succeeded(1)
    /\ Succeeded(2)

\* C7: on the sweep academic_reputation = employer_reputation = t with the
\* other inputs at 50, t1 <= t2 gives score(t1) <= score(t2) whenever both are
\* scored.
C7_SweepMonotone ==
    /\ ListsInStep
    /\ (idx = 2 /\ Succeeded(1) /\ Succeeded(2)
          /\ \E t1 \in UniverseMin..UniverseMax : \E t2 \in t1..UniverseMax :
                df = <<Sweep(t1), Sweep(t2)>>)
          => Recorded(1) <= Recorded(2)

\* Two different points of the sweep, scored, the second strictly higher.
C7_Witness ==
    /\ idx = 2
    /\ df[1] # df[2]
    /\ Succeeded(1)
    /\ Succeeded(2)
    /\ Recorded(1) < Recorded(2)

AllTop == Row(Num(100), Num(100), Num(100), Num(100), Num(100))

\* C8: the row with all five values 100 gets a centroid of at least 80, is
\* recorded with a score of at least 80.00 and is labelled Excellent.
C8_AllTopIsExcellent ==
    /\ ListsInStep
    /\ (idx = 1 /\ df[1] = AllTop) =>
          /\ Succeeded(1)
          /\ score[1] >= 80 * score[2]
          /\ Recorded(1) >= 8000
          /\ employability_categories[1] = "Excellent"

\* The all-100 row processed.
C8_Witness ==
    /\ idx = 1
    /\ df[1] = AllTop
    /\ Succeeded(1)

\* C9 as stated: the recorded category of every scored row is the one the
\* thresholds assign to the recorded (rounded) score.
C9_CategoryOfRoundedScore ==
    /\ ListsInStep
    /\ \A i \in 1..idx :
          Succeeded(i) => employability_categories[i] = ThresholdCategory(Recorded(i), 100)

\* The next lower category.
Below(c) ==
    CASE c = "Excellent" -> "Good"
      [] c = "Good" -> "Average"
      [] c = "Average" -> "Poor"
      [] c = "Poor" -> "Poor"

\* C9 amended: the recorded category of a scored row is the one the thresholds
\* assign to the unrounded score; it is the category of the recorded score
\* unless the recorded score is exactly 80.00, 60.00 or 40.00, where it may be
\* the next lower category (the score was rounded up onto the threshold).
C9_CategoryOfUnroundedScore ==
    /\ ListsInStep
    /\ \A i \in 1..idx :
          Succeeded(i) =>
              \/ employability_categories[i] = ThresholdCategory(Recorded(i), 100)
              \/ /\ Recorded(i) \in {8000, 6000, 4000}
                 /\ employability_categories[i] = Below(ThresholdCategory(Recorded(i), 100))
    /\ (idx >= 1 /\ Succeeded(idx)) =>
          /\ employability_categories[idx] = ThresholdCategory(score[1], score[2])
          /\ category = employability_categories[idx]

\* A row scored just below 40 and recorded as 40.00 with the category Poor.
C9_Witness ==
    /\ idx >= 1
    /\ Succeeded(idx)
    /\ Recorded(idx) = 4000
    /\ score[1] < 40 * score[2]
    /\ employability_categories[idx] = "Poor"

\* The rows of C10: employer_reputation 100, academic_reputation at most 50,
\* faculty_student_ratio at least 50, staff_phd missing.
NoFireShape(row) ==
    /\ row.Employer_Reputation = Num(100)
    /\ row.Academic_Reputation.kind = "num" /\ row.Academic_Reputation.v <= 50
    /\ row.Faculty_Student_Ratio.kind = "num" /\ row.Faculty_Student_Ratio.v >= 50
    /\ row.Staff_with_PhD = NaN

\* C10: a processed row of that shape, whatever its citations_per_paper, has
\* firing strength 0 for all eight rules and is recorded as (None, 'Error').
C10_InRangeRowWithNoRule ==
    /\ ListsInStep
    /\ \A i \in 1..idx :
          NoFireShape(df[i]) => (NoRuleFires(df[i]) /\ Result(i) = <<None, "Error">>)

\* A processed row of that shape whose effective inputs all lie in 0..100.
C10_Witness ==
    /\ idx = 1
    /\ NoFireShape(df[1])
    /\ df[1].Citations_per_Paper.kind = "num"
    /\ \A n \in DOMAIN EffectiveInputs(df[1]) :
          EffectiveInputs(df[1])[n] \in UniverseMin..UniverseMax
    /\ Result(1) = <<None, "Error">>

TypeOK ==
    /\ idx \in 0..Len(df)
    /\ Len(employability_scores) = Len(employability_categories)

====
